---- MODULE Spec2Model ----
(***************************************************************************)
(* covid19mx: the download / extract / convert pipeline of                 *)
(* SourceDataHandler (src/src/covid19mx/sources.py) and the downloader and *)
(* extractor classes of src/src/covid19mx/extraction.py.  A behaviour      *)
(* follows one object: a SourceDataHandler, a DataDownloader or a          *)
(* DataDictionaryDownloader.                                               *)
(*                                                                         *)
(* The file system is a set of existing directories and a function from    *)
(* the existing file paths to their contents.  A path is <<dir, name>>; a  *)
(* name is a sequence of tokens ("COVID19MEXICO", ".csv"), so that the     *)
(* code's substring tests are subsequence tests; a content is a sequence   *)
(* of bytes.  A ZIP archive of n members is n entry bytes followed by the  *)
(* end-of-central-directory byte, so a truncated archive cannot be opened. *)
(***************************************************************************)
EXTENDS Integers, Sequences, FiniteSets, TLC

VARIABLES
    object,                 \* the class of the object the behaviour follows
    covid_archive,          \* members of the archive served at covid_data_url
    dict_archive,           \* members of the archive served at data_dictionary_url
    dirs,                   \* the directories that exist
    files,                  \* existing file path -> content
    covid_data_file,        \* SourceDataHandler.covid_data_file (None or Some(path))
    data_dictionary_files,  \* SourceDataHandler.data_dictionary_files (None or Some(list))
    file_path,              \* file_path of the DataExtractor last returned
    file_paths,             \* file_paths of the DataDictionaryExtractor last returned
    gen_pc,                 \* position of the chunked download generator
    chunk_size,             \* its chunk_size argument
    content_size,           \* its local content_size
    stream,                 \* the part of the GET response body not yet iterated
    records,                \* the DataChunkInfo records the consumer has received
    segments,               \* the lengths of the file.write calls of this generator
    last,                   \* the last call made: operation, outcome, requests issued
    fetched                 \* the artifacts a fetch call has wholly transferred

vars == <<object, covid_archive, dict_archive, dirs, files, covid_data_file,
          data_dictionary_files, file_path, file_paths, gen_pc, chunk_size,
          content_size, stream, records, segments, last, fetched>>

----------------------------------------------------------------------------
(* Bounds of the model *)

MaxMembers == 2
MaxChunk == 2

----------------------------------------------------------------------------
(* Optional values: None, or Some(v) *)

None == <<>>
Some(v) == <<v>>

----------------------------------------------------------------------------
(* Names, markers and paths *)

Contains(name, marker) ==
    \E i \in 1..(Len(name) - Len(marker) + 1) :
        SubSeq(name, i, i + Len(marker) - 1) = marker

CovidMarker == <<"COVID19MEXICO", ".csv">>
CatalogMarker == <<"Catalogos">>
DescriptorMarker == <<"Descriptores">>

IsCovidDataName(file_name) == Contains(file_name, CovidMarker)

IsDictionaryName(file_name) ==
    Contains(file_name, CatalogMarker) \/ Contains(file_name, DescriptorMarker)

(* The member names the two servers' archives are built from: for each     *)
(* scan, names that match and a name that does not.                        *)
CovidMemberNames ==
    { <<"COVID19MEXICO", ".csv">>,
      <<"230101", "COVID19MEXICO", ".csv">>,
      <<"COVID19MEXICO", ".txt">> }

DictMemberNames ==
    { <<"Catalogos", "_0412", ".xlsx">>,
      <<"Descriptores", "_0412", ".xlsx">>,
      <<"LEEME", ".txt">> }

Suffixes == {".csv", ".xlsx", ".txt", ".zip", ".parquet"}

JoinPath(dir, name) == <<dir, name>>

WithSuffix(path, suffix) ==
    LET name == path[2]
        stem == IF Len(name) > 1 /\ name[Len(name)] \in Suffixes
                THEN SubSeq(name, 1, Len(name) - 1)
                ELSE name
    IN  <<path[1], Append(stem, suffix)>>

temp_data_path == "temp_data_path"
zipped_covid_data_filename == <<"datos_abiertos_covid19", ".zip">>
zipped_data_dictionary_filename == <<"diccionario_datos_covid19", ".zip">>

zipped_covid_data_file == JoinPath(temp_data_path, zipped_covid_data_filename)
(* Mutant: the dictionary archive is downloaded over the COVID data archive *)
zipped_archive_file_shared == zipped_covid_data_file

zipped_data_dictionary_file ==
    JoinPath(temp_data_path, zipped_data_dictionary_filename)

(* DataDownloader and DataDictionaryDownloader: the file downloaded to, and *)
(* the directory handed to extract(), which is another directory.           *)
downloads == "downloads"
destination_path == "destination_path"
destination_file ==
    IF object = "DataDownloader"
    THEN JoinPath(downloads, zipped_covid_data_filename)
    ELSE JoinPath(downloads, zipped_data_dictionary_filename)

Parent(path) == path[1]

----------------------------------------------------------------------------
(* Archives and their encoding *)

NoRepeat(s) == \A i, j \in 1..Len(s) : s[i] = s[j] => i = j

Archives(names) ==
    UNION { { s \in [1..n -> names] : NoRepeat(s) } : n \in 0..MaxMembers }

EOCD == <<"EOCD">>

EncodeZip(members) ==
    [i \in 1..(Len(members) + 1) |->
        IF i <= Len(members) THEN <<"entry", members[i]>> ELSE EOCD]

(* Mutant: any file opens as an archive *)
IsZipFileLax(content) == TRUE

IsZipFile(content) ==
    /\ Len(content) > 0
    /\ content[Len(content)] = EOCD
    /\ \A i \in 1..(Len(content) - 1) : content[i][1] = "entry"

namelist(content) == [i \in 1..(Len(content) - 1) |-> content[i][2]]

MemberData(file_name) == << <<"data", file_name>> >>

ErrorPage == << <<"html">> >>

----------------------------------------------------------------------------
(* File system and HTTP primitives *)

WriteFile(fs, path, content) ==
    [p \in (DOMAIN fs) \cup {path} |-> IF p = path THEN content ELSE fs[p]]

(* Mutant: the file is opened for appending *)
OpenAppend(fs, path) ==
    IF path \in DOMAIN fs THEN fs ELSE WriteFile(fs, path, <<>>)

OpenWb(fs, path) == WriteFile(fs, path, <<>>)

FileWrite(fs, path, data) == WriteFile(fs, path, fs[path] \o data)

(* Mutant: the directory is not created *)
MkdirSkipped(ds, dir) == ds

Mkdir(ds, dir) == ds \cup {dir}

Statuses == {200, 404}

(* Mutant: only server errors raise *)
RaiseForStatusServerOnly(status) == status >= 500 /\ status < 600

RaiseForStatus(status) == status >= 400 /\ status < 600

ResponseBody(status, archive) ==
    IF status = 200 THEN EncodeZip(archive) ELSE ErrorPage

ContentLengthHeaders(body) == {None, Some(Len(body))}

(* Mutant: a missing Content-Length is reported as -1 instead of 0 *)
HeaderIntNoDefault(header) == IF header = None THEN 0 - 1 ELSE header[1]

HeaderInt(header) == IF header = None THEN 0 ELSE header[1]

Min(a, b) == IF a <= b THEN a ELSE b

NextChunk(strm, n) == SubSeq(strm, 1, Min(n, Len(strm)))

AfterChunk(strm, n) == SubSeq(strm, Min(n, Len(strm)) + 1, Len(strm))

DataChunkInfo(c, f) == [chunk_size |-> c, file_size |-> f]

Request(method, status) == [method |-> method, status |-> status]

(* The probe whose response was read for its Content-Length header *)
Probe(status, header) ==
    [method |-> "HEAD", status |-> status, content_length |-> header]

Call(op, result, reqs) == [op |-> op, result |-> result, requests |-> reqs]

----------------------------------------------------------------------------
(* The initial state: an object just constructed, no directory created yet, *)
(* and the archives the two servers hold.  A DataDownloader never asks for  *)
(* the dictionary, nor a DataDictionaryDownloader for the COVID data.       *)

Init ==
    /\ object \in {"SourceDataHandler", "DataDownloader",
                   "DataDictionaryDownloader"}
    /\ covid_archive \in IF object = "DataDictionaryDownloader"
                         THEN {<<>>} ELSE Archives(CovidMemberNames)
    /\ dict_archive \in IF object = "DataDownloader"
                        THEN {<<>>} ELSE Archives(DictMemberNames)
    /\ dirs = {}
    /\ files = <<>>
    /\ covid_data_file = None
    /\ data_dictionary_files = None
    /\ file_path = None
    /\ file_paths = None
    /\ gen_pc = "none"
    /\ chunk_size = 0
    /\ content_size = 0
    /\ stream = <<>>
    /\ records = <<>>
    /\ segments = <<>>
    /\ last = Call("init", "ok", <<>>)
    /\ fetched = {}

----------------------------------------------------------------------------
(* The chunked download: SourceDataHandler.download_covid_data_chunks, and  *)
(* DataDownloader.download, which is the same statements with               *)
(* self.destination_file for self.zipped_covid_data_file.  It is a          *)
(* generator: calling it only creates the generator; each next() of the     *)
(* consumer runs it to the next yield, to its end, or to an exception.      *)

GenLive == gen_pc \in {"created", "suspended"}

(* The file the generator of this object writes *)
ChunksFile ==
    IF object = "SourceDataHandler" THEN zipped_covid_data_file
    ELSE destination_file

(* Mutant: asking for a new download forgets the file extracted before *)
GenCreateReset(op) ==
    /\ ~GenLive
    /\ \E c \in 1..MaxChunk : chunk_size' = c
    /\ gen_pc' = "created"
    /\ content_size' = 0
    /\ stream' = <<>>
    /\ records' = <<>>
    /\ segments' = <<>>
    /\ last' = Call(op, "generator", <<>>)
    /\ covid_data_file' = None
    /\ file_path' = None
    /\ UNCHANGED <<object, covid_archive, dict_archive, dirs, files,
                   data_dictionary_files, file_paths, fetched>>

GenCreate(op) ==
    /\ ~GenLive
    /\ \E c \in 1..MaxChunk : chunk_size' = c
    /\ gen_pc' = "created"
    /\ content_size' = 0
    /\ stream' = <<>>
    /\ records' = <<>>
    /\ segments' = <<>>
    /\ last' = Call(op, "generator", <<>>)
    /\ UNCHANGED <<object, covid_archive, dict_archive, dirs, files,
                   covid_data_file, data_dictionary_files, file_path,
                   file_paths, fetched>>

download_covid_data_chunks ==
    /\ object = "SourceDataHandler"
    /\ GenCreate("download_covid_data_chunks")

DataDownloader_download ==
    /\ object = "DataDownloader"
    /\ GenCreate("DataDownloader.download")

(* Mutant: the record carries the chunk size asked for, not the one read *)
ChunkInfoNominal(chunk_content, total) == DataChunkInfo(chunk_size, total)

(* The record yielded for a chunk *)
ChunkInfo(chunk_content, total) == DataChunkInfo(Len(chunk_content), total)

(* Mutant: the record is yielded before its chunk is written *)
IterContentStepYieldFirst(fs, strm, total, reqs) ==
    /\ strm # <<>>
    /\ files' = fs
    /\ segments' = segments
    /\ records' = Append(records,
                         ChunkInfo(NextChunk(strm, chunk_size), total))
    /\ gen_pc' = "suspended"
    /\ stream' = strm
    /\ content_size' = total
    /\ last' = Call("next", "yield", reqs)
    /\ fetched' = fetched

(* One turn of the for loop over response.iter_content(chunk_size), from    *)
(* file system fs, remaining body strm and total size total: write the next *)
(* chunk and yield its record, or leave the loop and both with blocks.      *)
IterContentStep(fs, strm, total, reqs) ==
    IF strm = <<>>
    THEN /\ files' = fs
         /\ gen_pc' = "exhausted"
         /\ stream' = <<>>
         /\ content_size' = 0
         /\ UNCHANGED <<records, segments>>
         /\ last' = Call("next", "StopIteration", reqs)
         /\ fetched' = fetched \cup {"covid"}
    ELSE LET chunk_content == NextChunk(strm, chunk_size)
         IN  /\ files' = FileWrite(fs, ChunksFile, chunk_content)
             /\ segments' = Append(segments, Len(chunk_content))
             /\ records' = Append(records, ChunkInfo(chunk_content, total))
             /\ gen_pc' = "suspended"
             /\ stream' = AfterChunk(strm, chunk_size)
             /\ content_size' = total
             /\ last' = Call("next", "yield", reqs)
             /\ fetched' = fetched

GenRaise(error, reqs) ==
    /\ gen_pc' = "raised"
    /\ last' = Call("next", error, reqs)
    /\ UNCHANGED <<dirs, files, content_size, stream, records, segments, fetched>>

(* The first next(): HEAD, GET, mkdir, open("wb"), first turn of the loop. *)
GenStart ==
    /\ gen_pc = "created"
    /\ \E head_status \in Statuses :
          IF RaiseForStatus(head_status)
          THEN GenRaise("HTTPError", <<Request("HEAD", head_status)>>)
          ELSE \E header \in ContentLengthHeaders(
                                ResponseBody(head_status, covid_archive)),
                  get_status \in Statuses :
               LET reqs == <<Probe(head_status, header),
                             Request("GET", get_status)>>
               IN  IF RaiseForStatus(get_status)
                   THEN GenRaise("HTTPError", reqs)
                   ELSE /\ dirs' = Mkdir(dirs, Parent(ChunksFile))
                        /\ IterContentStep(
                              OpenWb(files, ChunksFile),
                              ResponseBody(get_status, covid_archive),
                              HeaderInt(header), reqs)
    /\ UNCHANGED <<object, covid_archive, dict_archive, covid_data_file,
                   data_dictionary_files, file_path, file_paths, chunk_size>>

(* A later next(): the generator resumes after its yield. *)
GenResume ==
    /\ gen_pc = "suspended"
    /\ IterContentStep(files, stream, content_size, <<>>)
    /\ UNCHANGED <<object, covid_archive, dict_archive, dirs, covid_data_file,
                   data_dictionary_files, file_path, file_paths, chunk_size>>

(* The consumer stops early: the generator is closed (GeneratorExit at the  *)
(* yield), which leaves the with blocks and closes the file as it is.  A    *)
(* generator not yet started just ends.                                     *)
GenClose ==
    /\ GenLive
    /\ gen_pc' = "closed"
    /\ stream' = <<>>
    /\ content_size' = 0
    /\ last' = Call("close", "ok", <<>>)
    /\ fetched' = IF gen_pc = "suspended" /\ stream = <<>>
                  THEN fetched \cup {"covid"} ELSE fetched
    /\ UNCHANGED <<object, covid_archive, dict_archive, dirs, files,
                   covid_data_file, data_dictionary_files, file_path,
                   file_paths, chunk_size, records, segments>>

----------------------------------------------------------------------------
(* The other calls.  The program is single-threaded and a consumer drains   *)
(* or drops the chunk sequence before it goes on, so they are taken while   *)
(* no generator is live.                                                    *)

GenUnchanged ==
    UNCHANGED <<object, covid_archive, dict_archive, gen_pc, chunk_size,
                content_size, stream, records, segments>>

(* Mutant: a failing call clears what the earlier extractions recorded *)
RaiseClearing(op, error) ==
    /\ last' = Call(op, error, <<>>)
    /\ covid_data_file' = None
    /\ data_dictionary_files' = None
    /\ UNCHANGED <<dirs, files, file_path, file_paths, fetched>>

Raise(op, error) ==
    /\ last' = Call(op, error, <<>>)
    /\ UNCHANGED <<dirs, files, covid_data_file, data_dictionary_files,
                   file_path, file_paths, fetched>>

(* The body of both dictionary downloads: mkdir, open("wb"), GET, write *)
DictionaryDownload(op, path) ==
    /\ ~GenLive
    /\ \E status \in Statuses :
          /\ files' = FileWrite(OpenWb(files, path), path,
                                ResponseBody(status, dict_archive))
          /\ last' = Call(op, "ok", <<Request("GET", status)>>)
    /\ dirs' = Mkdir(dirs, Parent(path))
    /\ fetched' = fetched \cup {"dict"}
    /\ UNCHANGED <<covid_data_file, data_dictionary_files, file_path,
                   file_paths>>
    /\ GenUnchanged

(* SourceDataHandler.download_data_dictionary *)
download_data_dictionary ==
    /\ object = "SourceDataHandler"
    /\ DictionaryDownload("download_data_dictionary",
                          zipped_data_dictionary_file)

(* DataDictionaryDownloader.download *)
DataDictionaryDownloader_download ==
    /\ object = "DataDictionaryDownloader"
    /\ DictionaryDownload("DataDictionaryDownloader.download",
                          destination_file)

(* Mutant: the scan goes on after a match, so the last match is kept *)
LastCovidData(names) ==
    IF \E i \in 1..Len(names) : IsCovidDataName(names[i])
    THEN CHOOSE i \in 1..Len(names) :
            /\ IsCovidDataName(names[i])
            /\ \A j \in (i + 1)..Len(names) : ~IsCovidDataName(names[j])
    ELSE 0

(* The index of the first name of the scan that holds the marker, 0 if none *)
FirstCovidData(names) ==
    IF \E i \in 1..Len(names) : IsCovidDataName(names[i])
    THEN CHOOSE i \in 1..Len(names) :
            /\ IsCovidDataName(names[i])
            /\ \A j \in 1..(i - 1) : ~IsCovidDataName(names[j])
    ELSE 0

(* Mutant: the descriptor marker is not looked for *)
IsCatalogName(file_name) == Contains(file_name, CatalogMarker)
DictionaryDataCatalogsOnly(names) == SelectSeq(names, IsCatalogName)

(* The names of the scan that hold either dictionary marker, in scan order *)
DictionaryData(names) == SelectSeq(names, IsDictionaryName)

(* Mutant: an empty list is not told apart *)
NoneFoundNever(paths) == FALSE

(* "if not data_dictionary_files" *)
NoneFound(paths) == paths = <<>>

(* ZipFile.extract(file_name, path) *)
ZipExtract(fs, file_name, path) ==
    WriteFile(fs, JoinPath(path, file_name), MemberData(file_name))

RECURSIVE ZipExtractAll(_, _, _)
ZipExtractAll(fs, file_names, path) ==
    IF file_names = <<>> THEN fs
    ELSE ZipExtractAll(ZipExtract(fs, Head(file_names), path),
                       Tail(file_names), path)

PathsIn(path, file_names) ==
    [i \in 1..Len(file_names) |-> JoinPath(path, file_names[i])]

(* SourceDataHandler.extract_covid_data *)
extract_covid_data ==
    /\ object = "SourceDataHandler"
    /\ ~GenLive
    /\ IF zipped_covid_data_file \notin DOMAIN files
       THEN Raise("extract_covid_data", "FileNotFoundError")
       ELSE IF ~IsZipFile(files[zipped_covid_data_file])
       THEN Raise("extract_covid_data", "BadZipFile")
       ELSE LET names == namelist(files[zipped_covid_data_file])
                i == FirstCovidData(names)
            IN  /\ dirs' = Mkdir(dirs, temp_data_path)
                /\ IF i = 0
                   THEN /\ last' = Call("extract_covid_data", "ValueError", <<>>)
                        /\ UNCHANGED <<files, covid_data_file>>
                   ELSE /\ files' = ZipExtract(files, names[i], temp_data_path)
                        /\ covid_data_file' =
                              Some(JoinPath(temp_data_path, names[i]))
                        /\ last' = Call("extract_covid_data", "ok", <<>>)
                /\ UNCHANGED <<data_dictionary_files, file_path, file_paths,
                               fetched>>
    /\ GenUnchanged

(* SourceDataHandler.extract_dictionary_data *)
extract_dictionary_data ==
    /\ object = "SourceDataHandler"
    /\ ~GenLive
    /\ IF zipped_data_dictionary_file \notin DOMAIN files
       THEN Raise("extract_dictionary_data", "FileNotFoundError")
       ELSE IF ~IsZipFile(files[zipped_data_dictionary_file])
       THEN Raise("extract_dictionary_data", "BadZipFile")
       ELSE LET names == namelist(files[zipped_data_dictionary_file])
                found == DictionaryData(names)
                local_files == PathsIn(temp_data_path, found)
            IN  /\ dirs' = Mkdir(dirs, temp_data_path)
                /\ files' = ZipExtractAll(files, found, temp_data_path)
                /\ IF NoneFound(local_files)
                   THEN /\ last' = Call("extract_dictionary_data",
                                        "ValueError", <<>>)
                        /\ UNCHANGED data_dictionary_files
                   ELSE /\ data_dictionary_files' = Some(local_files)
                        /\ last' = Call("extract_dictionary_data", "ok", <<>>)
                /\ UNCHANGED <<covid_data_file, file_path, file_paths, fetched>>
    /\ GenUnchanged

(* polars.scan_csv(file).sink_parquet(destination_file) *)
SinkParquet(fs, csv_file, parquet_file) ==
    WriteFile(fs, parquet_file, << <<"parquet", fs[csv_file]>> >>)

(* SourceDataHandler.save_covid_data_as_parquet *)
save_covid_data_as_parquet ==
    /\ object = "SourceDataHandler"
    /\ ~GenLive
    /\ IF covid_data_file = None
       THEN Raise("save_covid_data_as_parquet", "AttributeError")
       ELSE LET csv_file == covid_data_file[1]
                parquet_file == WithSuffix(csv_file, ".parquet")
            IN  IF csv_file \notin DOMAIN files
                THEN Raise("save_covid_data_as_parquet", "FileNotFoundError")
                ELSE /\ files' = SinkParquet(files, csv_file, parquet_file)
                     /\ last' = Call("save_covid_data_as_parquet", "ok", <<>>)
                     /\ UNCHANGED <<dirs, covid_data_file,
                                    data_dictionary_files, file_path,
                                    file_paths, fetched>>
    /\ GenUnchanged

(* A ZipFile(source_file) that raises after the mkdir of the extractors of  *)
(* extraction.py                                                            *)
RaiseAfterMkdir(op, error) ==
    /\ last' = Call(op, error, <<>>)
    /\ dirs' = Mkdir(dirs, destination_path)
    /\ UNCHANGED <<files, covid_data_file, data_dictionary_files, file_path,
                   file_paths, fetched>>

(* DataDownloader.extract(destination_path): DataExtractor(...).extract() *)
DataDownloader_extract ==
    /\ object = "DataDownloader"
    /\ ~GenLive
    /\ IF destination_file \notin DOMAIN files
       THEN RaiseAfterMkdir("DataExtractor.extract", "FileNotFoundError")
       ELSE IF ~IsZipFile(files[destination_file])
       THEN RaiseAfterMkdir("DataExtractor.extract", "BadZipFile")
       ELSE LET names == namelist(files[destination_file])
                i == FirstCovidData(names)
            IN  /\ dirs' = Mkdir(dirs, destination_path)
                /\ IF i = 0
                   THEN /\ last' = Call("DataExtractor.extract",
                                        "ValueError", <<>>)
                        /\ UNCHANGED <<files, file_path>>
                   ELSE /\ files' = ZipExtract(files, names[i], destination_path)
                        /\ file_path' =
                              Some(JoinPath(destination_path, names[i]))
                        /\ last' = Call("DataExtractor.extract", "ok", <<>>)
                /\ UNCHANGED <<covid_data_file, data_dictionary_files,
                               file_paths, fetched>>
    /\ GenUnchanged

(* DataDictionaryDownloader.extract(destination_path):                      *)
(* DataDictionaryExtractor(...).extract()                                    *)
DataDictionaryDownloader_extract ==
    /\ object = "DataDictionaryDownloader"
    /\ ~GenLive
    /\ IF destination_file \notin DOMAIN files
       THEN RaiseAfterMkdir("DataDictionaryExtractor.extract",
                            "FileNotFoundError")
       ELSE IF ~IsZipFile(files[destination_file])
       THEN RaiseAfterMkdir("DataDictionaryExtractor.extract", "BadZipFile")
       ELSE LET names == namelist(files[destination_file])
                found == DictionaryData(names)
                local_files == PathsIn(destination_path, found)
            IN  /\ dirs' = Mkdir(dirs, destination_path)
                /\ files' = ZipExtractAll(files, found, destination_path)
                /\ IF NoneFound(local_files)
                   THEN /\ last' = Call("DataDictionaryExtractor.extract",
                                        "ValueError", <<>>)
                        /\ UNCHANGED file_paths
                   ELSE /\ file_paths' = Some(local_files)
                        /\ last' = Call("DataDictionaryExtractor.extract",
                                        "ok", <<>>)
                /\ UNCHANGED <<covid_data_file, data_dictionary_files,
                               file_path, fetched>>
    /\ GenUnchanged

----------------------------------------------------------------------------

Next ==
    \/ download_covid_data_chunks
    \/ DataDownloader_download
    \/ GenStart
    \/ GenResume
    \/ GenClose
    \/ download_data_dictionary
    \/ extract_covid_data
    \/ extract_dictionary_data
    \/ save_covid_data_as_parquet
    \/ DataDownloader_extract
    \/ DataDictionaryDownloader_download
    \/ DataDictionaryDownloader_extract

Spec == Init /\ [][Next]_vars

----------------------------------------------------------------------------
(* Vocabulary of the properties *)

RECURSIVE SumChunkSizes(_)
SumChunkSizes(recs) ==
    IF recs = <<>> THEN 0
    ELSE Head(recs).chunk_size + SumChunkSizes(Tail(recs))

RECURSIVE SumSeq(_)
SumSeq(ns) == IF ns = <<>> THEN 0 ELSE Head(ns) + SumSeq(Tail(ns))

(* The resource at covid_data_url and its size S *)
CovidResource == ResponseBody(200, covid_archive)
ResourceSize == Len(CovidResource)

NonSuccess(status) == status \notin 200..299

SomeNonSuccess(call) ==
    \E i \in 1..Len(call.requests) : NonSuccess(call.requests[i].status)

(* C1: once the consumer has drained the chunk sequence, the sum of         *)
(* chunk_size over the records equals the size of the destination file,     *)
(* and equals S when the server reported Content-Length = S.                *)
C1_SumOfChunksIsFileSize ==
    gen_pc = "exhausted" =>
        /\ ChunksFile \in DOMAIN files
        /\ SumChunkSizes(records) = Len(files[ChunksFile])
        /\ (\A k \in 1..Len(records) : records[k].file_size = ResourceSize)
              => SumChunkSizes(records) = ResourceSize

C1_Witness ==
    /\ gen_pc = "exhausted"
    /\ Len(records) >= 2
    /\ records[Len(records)].chunk_size < chunk_size
    /\ records[1].file_size = ResourceSize
    /\ SumChunkSizes(records) = ResourceSize

(* C2: when the consumer has observed N records, exactly N segments have    *)
(* been written to the destination file: the bytes written are the first    *)
(* bytes of the resource and as many as the N chunk_size values sum to,     *)
(* segment k is what record k reports and at most chunk_size bytes, and no  *)
(* further segment has been written; a generator not yet asked for a record *)
(* has issued no request and touched no file.                               *)
C2_State ==
    /\ Len(segments) = Len(records)
    /\ \A k \in 1..Len(records) :
          /\ segments[k] = records[k].chunk_size
          /\ segments[k] >= 1
          /\ segments[k] <= chunk_size
    /\ records # <<>> =>
          /\ ChunksFile \in DOMAIN files
          /\ files[ChunksFile] =
                SubSeq(CovidResource, 1, SumChunkSizes(records))
    /\ gen_pc = "created" => records = <<>> /\ last.requests = <<>>

C2_Lazy == gen_pc' = "created" => files' = files /\ dirs' = dirs

C2_WriteThenYield == [](C2_State) /\ [][C2_Lazy]_vars

C2_Witness ==
    /\ gen_pc = "closed"
    /\ Len(records) = 1
    /\ Len(files[ChunksFile]) = 1
    /\ ResourceSize = 3

(* C3: in the chunked fetch a non-success status on the HEAD or on the GET  *)
(* fails the call with a transport error: no record is yielded, and no      *)
(* directory or file is created or changed, so that a file an earlier       *)
(* fetch left keeps its content.                                            *)
C3_Step ==
    (last'.op = "next" /\ SomeNonSuccess(last')) =>
        /\ last'.result = "HTTPError"
        /\ gen_pc' = "raised"
        /\ records' = <<>>
        /\ segments' = <<>>
        /\ files' = files
        /\ dirs' = dirs

C4_DictionaryFetchAborts ==
    (/\ last.op \in {"download_data_dictionary",
                     "DataDictionaryDownloader.download"}
     /\ SomeNonSuccess(last))
        => last.result = "HTTPError"

----------------------------------------------------------------------------
(* Vocabulary of the extraction properties, for whichever object the       *)
(* behaviour follows                                                       *)

NamesPrimaryData(name) ==
    \E i \in 1..(Len(name) - 1) :
        name[i] = "COVID19MEXICO" /\ name[i + 1] = ".csv"

NamesDictionaryData(name) ==
    \E i \in 1..Len(name) : name[i] \in {"Catalogos", "Descriptores"}

IsHandler == object = "SourceDataHandler"

ExtractDir == IF IsHandler THEN temp_data_path ELSE destination_path

DictionaryResource == ResponseBody(200, dict_archive)
DictionaryFile ==
    IF IsHandler THEN zipped_data_dictionary_file ELSE destination_file

PrimaryResult == IF IsHandler THEN covid_data_file ELSE file_path
DictionaryResult == IF IsHandler THEN data_dictionary_files ELSE file_paths

Results == <<covid_data_file, data_dictionary_files, file_path, file_paths>>

PrimaryExtractOps == {"extract_covid_data", "DataExtractor.extract"}
DictionaryExtractOps ==
    {"extract_dictionary_data", "DataDictionaryExtractor.extract"}
DictionaryFetchOps ==
    {"download_data_dictionary", "DataDictionaryDownloader.download"}

HoldsPrimaryArchive ==
    ChunksFile \in DOMAIN files /\ files[ChunksFile] = CovidResource

HoldsDictionaryArchive ==
    DictionaryFile \in DOMAIN files /\ files[DictionaryFile] = DictionaryResource

SomePrimaryData ==
    \E i \in 1..Len(covid_archive) : NamesPrimaryData(covid_archive[i])

WantedDictionaryData == SelectSeq(dict_archive, NamesDictionaryData)

ParquetFiles ==
    {p \in DOMAIN files : p[2][Len(p[2])] = ".parquet"}

(* C5: single-member extraction of an archive with a matching member        *)
(* extracts the first member, in archive order, whose name contains         *)
(* "COVID19MEXICO.csv", records destinationDir joined with that name, and   *)
(* extracts no other member.                                                *)
C5_Step ==
    (/\ last'.op \in PrimaryExtractOps
     /\ HoldsPrimaryArchive
     /\ SomePrimaryData)
        => \E i \in 1..Len(covid_archive) :
              /\ NamesPrimaryData(covid_archive[i])
              /\ \A j \in 1..(i - 1) : ~NamesPrimaryData(covid_archive[j])
              /\ last'.result = "ok"
              /\ PrimaryResult' = Some(<<ExtractDir, covid_archive[i]>>)
              /\ files' = WriteFile(files, <<ExtractDir, covid_archive[i]>>,
                                    MemberData(covid_archive[i]))

C5_FirstMatchOnly == [][C5_Step]_vars

C5_Witness ==
    /\ last.op \in PrimaryExtractOps
    /\ last.result = "ok"
    /\ Len(covid_archive) = 2
    /\ \A i \in 1..2 : NamesPrimaryData(covid_archive[i])
    /\ PrimaryResult = Some(<<ExtractDir, covid_archive[1]>>)
    /\ <<ExtractDir, covid_archive[2]>> \notin DOMAIN files

(* C6: single-member extraction of an existing archive with no matching     *)
(* member fails with ValueError, extracts nothing, and leaves the           *)
(* destination directory existing.                                          *)
C6_Step ==
    (/\ last'.op \in PrimaryExtractOps
     /\ HoldsPrimaryArchive
     /\ ~SomePrimaryData)
        => /\ last'.result = "ValueError"
           /\ files' = files
           /\ Results' = Results
           /\ ExtractDir \in dirs'

C6_NoMatchFails == [][C6_Step]_vars

C6_Witness ==
    /\ last = Call("DataExtractor.extract", "ValueError", <<>>)
    /\ covid_archive # <<>>
    /\ dirs = {downloads, destination_path}
    /\ DOMAIN files = {destination_file}

(* C7: multi-member extraction extracts exactly the members whose name      *)
(* contains "Catalogos" or "Descriptores", and records their paths under    *)
(* destinationDir in archive order; no other member is extracted or listed. *)
C7_Step ==
    (/\ last'.op \in DictionaryExtractOps
     /\ HoldsDictionaryArchive)
        => LET want == WantedDictionaryData
               paths == [i \in 1..Len(want) |-> <<ExtractDir, want[i]>>]
               new == {paths[i] : i \in 1..Len(paths)}
           IN  /\ DOMAIN files' = (DOMAIN files) \cup new
               /\ \A q \in DOMAIN files' :
                     files'[q] = IF q \in new THEN MemberData(q[2])
                                 ELSE files[q]
               /\ want # <<>> =>
                     /\ last'.result = "ok"
                     /\ DictionaryResult' = Some(paths)

C7_AllMatchesInOrder == [][C7_Step]_vars

C7_Witness ==
    /\ last.op \in DictionaryExtractOps
    /\ last.result = "ok"
    /\ Len(dict_archive) = 2
    /\ Len(WantedDictionaryData) = 1
    /\ DictionaryResult = Some(<< <<ExtractDir, dict_archive[2]>> >>)
    /\ <<ExtractDir, dict_archive[1]>> \notin DOMAIN files

(* C8: an extraction that matches no member is never an empty success: the  *)
(* recorded dictionary list is unset or non-empty in every state, and a     *)
(* multi-member extraction that finds nothing raises ValueError, as the     *)
(* single-member extraction does.                                           *)
C8_NeverEmptySuccess ==
    /\ data_dictionary_files # None => data_dictionary_files[1] # <<>>
    /\ file_paths # None => file_paths[1] # <<>>
    /\ (/\ last.op \in DictionaryExtractOps
        /\ HoldsDictionaryArchive
        /\ WantedDictionaryData = <<>>) => last.result = "ValueError"
    /\ (/\ last.op \in PrimaryExtractOps
        /\ HoldsPrimaryArchive
        /\ ~SomePrimaryData) => last.result = "ValueError"

C8_Witness ==
    /\ last = Call("extract_dictionary_data", "ValueError", <<>>)
    /\ dict_archive # <<>>
    /\ data_dictionary_files = None

(* C9: an artifact is EXTRACTED only after a fetch of it, and CONVERTED     *)
(* only after the primary artifact is EXTRACTED: an extract before any      *)
(* fetch of its archive has completed fails with an error and records       *)
(* nothing, and a convert before a successful extract fails with an error   *)
(* and writes no output file.                                               *)
C9_StagesInOrder ==
    /\ PrimaryResult # None => "covid" \in fetched
    /\ DictionaryResult # None => "dict" \in fetched
    /\ (last.op \in PrimaryExtractOps /\ "covid" \notin fetched)
          => last.result \in {"FileNotFoundError", "BadZipFile"}
    /\ (last.op \in DictionaryExtractOps /\ "dict" \notin fetched)
          => last.result \in {"FileNotFoundError", "BadZipFile"}
    /\ ParquetFiles # {} => covid_data_file # None
    /\ (last.op = "save_covid_data_as_parquet" /\ covid_data_file = None)
          => last.result = "AttributeError" /\ ParquetFiles = {}

C9_Witness ==
    /\ last = Call("save_covid_data_as_parquet", "AttributeError", <<>>)
    /\ "covid" \in fetched
    /\ HoldsPrimaryArchive
    /\ covid_data_file = None

(* C10: running a stage again, with the remote content and the archive      *)
(* unchanged, leaves the file system and the result fields as the first     *)
(* run left them: a drained fetch leaves exactly the resource in the        *)
(* destination file whatever the file held, and changes nothing else; a     *)
(* dictionary fetch, an extract or a convert made twice in a row changes    *)
(* nothing the second time.                                                 *)
RerunOps ==
    DictionaryFetchOps \cup PrimaryExtractOps \cup DictionaryExtractOps
        \cup {"save_covid_data_as_parquet"}

C10_Refetched == gen_pc = "exhausted" => HoldsPrimaryArchive

C10_FetchFrame ==
    last'.op \in {"download_covid_data_chunks", "DataDownloader.download",
                  "next", "close"}
        => /\ Results' = Results
           /\ dirs' \subseteq dirs \cup {Parent(ChunksFile)}
           /\ DOMAIN files' \subseteq (DOMAIN files) \cup {ChunksFile}
           /\ \A q \in (DOMAIN files) \ {ChunksFile} :
                 q \in DOMAIN files' /\ files'[q] = files[q]

C10_Rerun ==
    (/\ last'.op \in RerunOps
     /\ last.op = last'.op
     /\ last.requests = last'.requests)
        => /\ files' = files
           /\ dirs' = dirs
           /\ Results' = Results
           /\ last'.result = last.result

C10_Idempotent ==
    [](C10_Refetched) /\ [][C10_FetchFrame /\ C10_Rerun]_vars

C10_Witness ==
    /\ last.op = "next"
    /\ last.result = "StopIteration"
    /\ covid_data_file # None
    /\ ParquetFiles # {}
    /\ HoldsPrimaryArchive

(* C11: no call triggers another stage and each result field is written    *)
(* only by its own stage: both fields start unset; covid_data_file changes  *)
(* only in a successful extract_covid_data and data_dictionary_files only   *)
(* in a successful extract_dictionary_data; a fetch extracts nothing and    *)
(* leaves the fields alone, an extract issues no request and leaves the     *)
(* archives alone, and convert changes neither a field nor an archive.      *)
ChunkedFetchOps ==
    {"download_covid_data_chunks", "DataDownloader.download", "next", "close"}

FileKept(q) ==
    /\ q \in DOMAIN files <=> q \in DOMAIN files'
    /\ q \in DOMAIN files => files'[q] = files[q]

OnlyFileWritten(q) ==
    /\ DOMAIN files' \subseteq (DOMAIN files) \cup {q}
    /\ \A r \in (DOMAIN files) \ {q} : FileKept(r)

C11_Start == last.op = "init" => Results = <<None, None, None, None>>

C11_Step ==
    /\ covid_data_file' # covid_data_file
          => last' = Call("extract_covid_data", "ok", <<>>)
    /\ data_dictionary_files' # data_dictionary_files
          => last' = Call("extract_dictionary_data", "ok", <<>>)
    /\ file_path' # file_path
          => last' = Call("DataExtractor.extract", "ok", <<>>)
    /\ file_paths' # file_paths
          => last' = Call("DataDictionaryExtractor.extract", "ok", <<>>)
    /\ last'.op \in ChunkedFetchOps
          => Results' = Results /\ OnlyFileWritten(ChunksFile)
    /\ last'.op \in DictionaryFetchOps
          => Results' = Results /\ OnlyFileWritten(DictionaryFile)
    /\ last'.op \in PrimaryExtractOps \cup DictionaryExtractOps
          => /\ last'.requests = <<>>
             /\ FileKept(ChunksFile)
             /\ FileKept(DictionaryFile)
    /\ last'.op = "save_covid_data_as_parquet"
          => /\ last'.requests = <<>>
             /\ Results' = Results
             /\ FileKept(zipped_covid_data_file)
             /\ FileKept(zipped_data_dictionary_file)

C11_EachStageItsOwnField == [](C11_Start) /\ [][C11_Step]_vars

C11_Witness ==
    /\ last = Call("save_covid_data_as_parquet", "ok", <<>>)
    /\ covid_data_file # None
    /\ data_dictionary_files # None
    /\ HoldsPrimaryArchive
    /\ HoldsDictionaryArchive
    /\ ParquetFiles # {}

(* C12: when the probe response omits Content-Length the chunked fetch     *)
(* still succeeds: every record carries file_size 0, the whole byte stream  *)
(* is written and the file on disk has as many bytes as were transferred.   *)
(* In every fetch all records of one call carry one total size, the value   *)
(* learned from the probe before the transfer started.                      *)
ProbedSize(call) ==
    IF call.requests[1].content_length = None
    THEN 0
    ELSE call.requests[1].content_length[1]

SameTotal(recs) ==
    \A i, j \in 1..Len(recs) : recs[i].file_size = recs[j].file_size

C12_State ==
    /\ SameTotal(records)
    /\ gen_pc = "suspended" => records[1].file_size = content_size
    /\ gen_pc = "exhausted" =>
          /\ HoldsPrimaryArchive
          /\ Len(files[ChunksFile]) = SumSeq(segments)
          /\ SumSeq(segments) = ResourceSize

C12_Step ==
    /\ (gen_pc = "created" /\ last'.op = "next" /\ last'.result = "yield")
          => /\ Len(last'.requests) = 2
             /\ Len(records') = 1
             /\ records'[1].file_size = ProbedSize(last')
             /\ last'.requests[1].content_length = None
                   => records'[1].file_size = 0
    /\ (gen_pc = "suspended" /\ last'.op = "next" /\ last'.result = "yield")
          => /\ last'.requests = <<>>
             /\ Len(records') = Len(records) + 1
             /\ SubSeq(records', 1, Len(records)) = records
             /\ records'[Len(records')].file_size = records[1].file_size
    /\ (gen_pc = "suspended" /\ last'.op = "next"
                             /\ last'.result = "StopIteration")
          => records' = records

C12_TotalSizeFromProbe == [](C12_State) /\ [][C12_Step]_vars

C12_Witness ==
    /\ gen_pc = "exhausted"
    /\ Len(records) >= 2
    /\ \A i \in 1..Len(records) : records[i].file_size = 0
    /\ HoldsPrimaryArchive
    /\ Len(files[ChunksFile]) = SumChunkSizes(records)

(* C13: end to end on one handler: once the primary chunk sequence has been *)
(* drained and the dictionary fetch has completed, the servers answering    *)
(* with valid archives (the primary one holding a "COVID19MEXICO.csv"       *)
(* member, the dictionary one holding "Catalogos_0412.xlsx" and             *)
(* "Descriptores_0412.xlsx"), each archive is the file at its zipped_*_file *)
(* path under the working directory, extract_covid_data and                 *)
(* extract_dictionary_data both succeed reading that file, and they leave   *)
(* covid_data_file set to one CSV path and data_dictionary_files set to     *)
(* exactly two paths.                                                       *)
Catalogos_0412 == <<"Catalogos", "_0412", ".xlsx">>
Descriptores_0412 == <<"Descriptores", "_0412", ".xlsx">>

Members(archive) == {archive[i] : i \in 1..Len(archive)}

Elements(s) == {s[i] : i \in 1..Len(s)}

ValidDictionaryArchive ==
    {Catalogos_0412, Descriptores_0412} \subseteq Members(dict_archive)

PrimaryFetched ==
    /\ zipped_covid_data_file \in DOMAIN files
    /\ files[zipped_covid_data_file] = CovidResource

DictionaryFetched ==
    /\ zipped_data_dictionary_file \in DOMAIN files
    /\ files[zipped_data_dictionary_file] = DictionaryResource

C13_Fetch ==
    IsHandler =>
        /\ Parent(zipped_covid_data_file) = temp_data_path
        /\ Parent(zipped_data_dictionary_file) = temp_data_path
        /\ gen_pc = "exhausted" => PrimaryFetched
        /\ last = Call("download_data_dictionary", "ok",
                       <<Request("GET", 200)>>) => DictionaryFetched

C13_Extract ==
    /\ last'.op \in {"extract_covid_data", "extract_dictionary_data",
                     "save_covid_data_as_parquet"}
          => /\ FileKept(zipped_covid_data_file)
             /\ FileKept(zipped_data_dictionary_file)
             /\ gen_pc' = gen_pc
    /\ (last'.op = "extract_covid_data" /\ PrimaryFetched /\ SomePrimaryData)
          => /\ last'.result = "ok"
             /\ covid_data_file' # None
             /\ LET csv == covid_data_file'[1]
                IN  /\ Parent(csv) = temp_data_path
                    /\ csv[2] \in Members(covid_archive)
                    /\ csv[2][Len(csv[2])] = ".csv"
                    /\ csv \in DOMAIN files'
                    /\ files'[csv] = MemberData(csv[2])
    /\ (last'.op = "extract_dictionary_data" /\ DictionaryFetched
                                             /\ ValidDictionaryArchive)
          => /\ last'.result = "ok"
             /\ data_dictionary_files' # None
             /\ LET paths == data_dictionary_files'[1]
                IN  /\ Len(paths) = 2
                    /\ Elements(paths) =
                          { JoinPath(temp_data_path, Catalogos_0412),
                            JoinPath(temp_data_path, Descriptores_0412) }
                    /\ \A i \in 1..2 :
                          /\ paths[i] \in DOMAIN files'
                          /\ files'[paths[i]] = MemberData(paths[i][2])

C13_EndToEnd == [](C13_Fetch) /\ [][C13_Extract]_vars

C13_Witness ==
    /\ IsHandler
    /\ gen_pc = "exhausted"
    /\ PrimaryFetched
    /\ DictionaryFetched
    /\ ValidDictionaryArchive
    /\ last = Call("extract_dictionary_data", "ok", <<>>)
    /\ covid_data_file # None
    /\ covid_data_file[1] \in DOMAIN files
    /\ data_dictionary_files # None
    /\ Len(data_dictionary_files[1]) = 2

(* C14: a failing extraction leaves the result state as it was: when       *)
(* extract_covid_data or extract_dictionary_data raises (no matching        *)
(* member, or the archive cannot be opened) covid_data_file and             *)
(* data_dictionary_files keep their values, so that after a successful      *)
(* extraction and a failing one the fields still hold the paths of the      *)
(* success, and the failing call extracts no member.                        *)
ExtractErrors == {"FileNotFoundError", "BadZipFile", "ValueError"}

C14_Step ==
    (last'.op \in PrimaryExtractOps \cup DictionaryExtractOps
        /\ last'.result # "ok")
        => /\ last'.result \in ExtractErrors
           /\ covid_data_file' = covid_data_file
           /\ data_dictionary_files' = data_dictionary_files
           /\ file_path' = file_path
           /\ file_paths' = file_paths
           /\ files' = files

C14_FailureKeepsResults == [][C14_Step]_vars

C14_Witness ==
    /\ last.op = "extract_covid_data"
    /\ last.result \in {"BadZipFile", "ValueError"}
    /\ covid_data_file # None
    /\ covid_data_file[1] \in DOMAIN files
    /\ data_dictionary_files # None

====
